---------------------------- MODULE Spec2Model ----------------------------
(***************************************************************************)
(* A model of qualtran/bloqs/basic_gates/t_gate.py: the TGate bloq.        *)
(*                                                                         *)
(* State: the TGate instances alive in the interpreter (heap), the         *)
(* module-level array _TMATRIX, one caller-owned quimb tensor network      *)
(* (tn), the outcome of the last call made (ret), and the number of calls   *)
(* made so far (ncalls).                                                   *)
(*                                                                         *)
(* Python strings are sequences of one-character strings, so that          *)
(* f-string formatting is a concatenation and substring tests are real.    *)
(* Complex numbers are in polar form [abs, arg] with arg in eighths of a   *)
(* turn (arg = 1 is the angle pi/4), which is exact for every entry that   *)
(* _TMATRIX, its conjugate and its transpose can hold.                     *)
(***************************************************************************)
EXTENDS Integers, Sequences, FiniteSets, TLC

VARIABLES heap, TMATRIX, tn, ret, ncalls

vars == <<heap, TMATRIX, tn, ret, ncalls>>

\* ------------------------------------------------------------------ bounds
\* The number of calls (constructions included) made in one run.
MaxCalls == 4

\* ------------------------------------------------------------------ inputs
\* Soquet handles the framework passes as legs.
Soquets == {"soq0", "soq1"}
\* Tags the framework passes (bloq instances of the composite bloq).
Tags == {"binst0", "binst1"}
\* cirq qubits.
Qubits == {"q0", "q1"}
\* The incoming / outgoing dictionaries: register name -> soquet. A dictionary
\* without the key 'q' is the caller's contract violation.
NoKey == "<missing>"
SoqDicts == {[q |-> s] : s \in Soquets \cup {NoKey}}
\* The qubit collections as_cirq_op is given: of length 0, 1 or 2.
Quregs == {<<>>} \cup {<<a>> : a \in Qubits} \cup {<<"q0", "q1">>}

\* ------------------------------------------------------------- complex 2x2
Zero == [abs |-> 0, arg |-> 0]
One == [abs |-> 1, arg |-> 0]
\* np.exp(1.0j * np.pi / 4.0)
ExpIPi4 == [abs |-> 1, arg |-> 1]

\* numpy: ndarray.conj(), elementwise complex conjugate (a new array)
conj(m) ==
    [i \in 1..2 |-> [j \in 1..2 |->
        [abs |-> m[i][j].abs, arg |-> (8 - m[i][j].arg) % 8]]]

\* numpy: ndarray.T, the transpose
transpose(m) == [i \in 1..2 |-> [j \in 1..2 |-> m[j][i]]]

\* _TMATRIX = np.array([[1, 0], [0, np.exp(1.0j * np.pi / 4.0)]])
TMATRIX_init == <<<<One, Zero>>, <<Zero, ExpIPi4>>>>

\* ----------------------------------------------------------------- strings
\* The one character U+2020, the dagger.
Dagger == "U+2020"

\* (dagger) if self.is_adjoint else ''   followed by   f'T{maybe_dag}'
pretty_name_dropdag(inst) == <<"T">>

pretty_name(inst) ==
    LET maybe_dag == IF inst.is_adjoint THEN <<Dagger>> ELSE <<>>
    IN  <<"T">> \o maybe_dag

IsAdjointTrue ==
    <<"i", "s", "_", "a", "d", "j", "o", "i", "n", "t", "=", "T", "r", "u", "e">>

str_always(inst) == <<"T", "G", "a", "t", "e", "(">> \o IsAdjointTrue \o <<")">>

\* 'is_adjoint=True' if self.is_adjoint else ''   followed by   f'TGate({maybe_dag})'
str(inst) ==
    LET maybe_dag == IF inst.is_adjoint THEN IsAdjointTrue ELSE <<>>
    IN  <<"T", "G", "a", "t", "e", "(">> \o maybe_dag \o <<")">>

\* Bloq.short_name of the base class: the gate's display name.
short_name(inst) == pretty_name(inst)

\* --------------------------------------------------------------- signature
\* Signature.build(**registers): one register per keyword, of that bit-width.
Signature_build(kw) == [i \in 1..Len(kw) |-> [name |-> kw[i][1], bitsize |-> kw[i][2]]]

\* ------------------------------------------------------------------- state
\* A new instance: attrs' generated __init__ sets the field; the instance
\* __dict__ (cache) holds no signature yet: it is <<>>, and <<sig>> once the
\* cached property has run. 'src' is the instance adjoint() was called on to
\* make this one (0: made by the constructor).
NewInst(is_adjoint, src) == [is_adjoint |-> is_adjoint, cache |-> <<>>, src |-> src]

Ids == DOMAIN heap

\* attrs' generated __eq__ of the frozen class: the same class and equal
\* fields; the instance __dict__ is not compared.
eq(a, b) == a.is_adjoint = b.is_adjoint

NoCall == [op |-> "none", self |-> 0, arg |-> <<>>, val |-> <<>>]

\* Every call counts towards the calls of the run.
Counted == ncalls < MaxCalls /\ ncalls' = ncalls + 1

Init ==
    /\ heap = <<>>
    /\ TMATRIX = TMATRIX_init
    /\ tn = <<>>
    /\ ret = NoCall
    /\ ncalls = 0

\* TGate(is_adjoint=b)
TGate(b) ==
    /\ Counted
    /\ heap' = Append(heap, NewInst(b, 0))
    /\ ret' = [op |-> "TGate", self |-> 0, arg |-> b, val |-> Len(heap) + 1]
    /\ UNCHANGED <<TMATRIX, tn>>

\* _t_gate(): TGate() with the default is_adjoint = False
t_gate ==
    /\ Counted
    /\ heap' = Append(heap, NewInst(FALSE, 0))
    /\ ret' = [op |-> "_t_gate", self |-> 0, arg |-> <<>>, val |-> Len(heap) + 1]
    /\ UNCHANGED <<TMATRIX, tn>>

signature_value_flag(inst) ==
    IF inst.is_adjoint THEN Signature_build(<<<<"q", 2>>>>) ELSE Signature_build(<<<<"q", 1>>>>)

\* the body of the cached property
signature_value(inst) == Signature_build(<<<<"q", 1>>>>)

\* self.signature: functools.cached_property runs the body on the first
\* access and keeps the result in the instance __dict__; later accesses
\* return what is kept.
signature(self) ==
    LET cached == heap[self].cache
        val == IF cached = <<>> THEN signature_value(heap[self]) ELSE cached[1]
    IN  /\ Counted
        /\ heap' = [heap EXCEPT ![self].cache = <<val>>]
        /\ ret' = [op |-> "signature", self |-> self,
                   arg |-> (cached = <<>>), val |-> val]
        /\ UNCHANGED <<TMATRIX, tn>>

t_complexity_value_flag(inst) == [t |-> IF inst.is_adjoint THEN 0 ELSE 1]

\* TComplexity(t=1)
t_complexity_value(inst) == [t |-> 1]

\* self._t_complexity_()
t_complexity(self) ==
    /\ Counted
    /\ ret' = [op |-> "_t_complexity_", self |-> self, arg |-> <<>>,
               val |-> t_complexity_value(heap[self])]
    /\ UNCHANGED <<heap, TMATRIX, tn>>

\* _TMATRIX.conj().T if self.is_adjoint else _TMATRIX
tensor_data_noconj(inst, M) == M

tensor_data(inst, M) == IF inst.is_adjoint THEN transpose(conj(M)) ELSE M

\* inds=(outgoing['q'], incoming['q'])
tensor_inds_swapped(incoming, outgoing) == <<incoming.q, outgoing.q>>

tensor_inds(incoming, outgoing) == <<outgoing.q, incoming.q>>

\* tags=[self.short_name(), tag]
tensor_tags_notag(inst, tag) == <<short_name(inst)>>

tensor_tags(inst, tag) == <<short_name(inst), tag>>

\* self.add_my_tensors(tn, tag, incoming=..., outgoing=...): a dictionary
\* without 'q' raises KeyError while the arguments of qtn.Tensor are being
\* evaluated, before tn.add; otherwise tn.add appends the one new tensor.
add_my_tensors(self, tag, incoming, outgoing) ==
    LET data == tensor_data(heap[self], TMATRIX)
        args == [tag |-> tag, incoming |-> incoming, outgoing |-> outgoing]
    IN  /\ Counted
        /\ IF outgoing.q = NoKey \/ incoming.q = NoKey
           THEN /\ tn' = tn
                /\ ret' = [op |-> "add_my_tensors", self |-> self, arg |-> args,
                           val |-> "KeyError"]
           ELSE /\ tn' = Append(tn, [data |-> data,
                                     inds |-> tensor_inds(incoming, outgoing),
                                     tags |-> tensor_tags(heap[self], tag)])
                /\ ret' = [op |-> "add_my_tensors", self |-> self, arg |-> args,
                           val |-> "None"]
        /\ UNCHANGED <<heap, TMATRIX>>

\* attrs.evolve(self, is_adjoint=not self.is_adjoint): a new instance made by
\* the class's __init__ from self's fields with is_adjoint replaced.
evolve_true(inst, self) == NewInst(TRUE, self)

evolve(inst, self) == NewInst(~inst.is_adjoint, self)

adjoint_inplace(self) ==
    /\ Counted
    /\ heap' = [heap EXCEPT ![self].is_adjoint = ~heap[self].is_adjoint]
    /\ ret' = [op |-> "adjoint", self |-> self, arg |-> <<>>, val |-> self]
    /\ UNCHANGED <<TMATRIX, tn>>

\* self.adjoint()
adjoint(self) ==
    /\ Counted
    /\ heap' = Append(heap, evolve(heap[self], self))
    /\ ret' = [op |-> "adjoint", self |-> self, arg |-> <<>>, val |-> Len(heap) + 1]
    /\ UNCHANGED <<TMATRIX, tn>>

\* cirq.T(q): the operation of the gate cirq.T on the qubit q
cirq_T(q) == [gate |-> "T", qubits |-> <<q>>]

\* cirq.unitary of a gate: cirq.T is diag(1, e^{i pi/4}), and cirq.T**-1, its
\* adjoint, is the conjugate transpose.
cirq_unitary(gate) ==
    IF gate = "T" THEN <<<<One, Zero>>, <<Zero, ExpIPi4>>>>
    ELSE transpose(conj(<<<<One, Zero>>, <<Zero, ExpIPi4>>>>))

\* self.as_cirq_op(qubit_manager, q): (q,) = q raises ValueError unless q
\* holds exactly one qubit; the qubit manager is not used.
as_cirq_op(self, q) ==
    /\ Counted
    /\ IF Len(q) # 1
       THEN ret' = [op |-> "as_cirq_op", self |-> self, arg |-> q, val |-> "ValueError"]
       ELSE ret' = [op |-> "as_cirq_op", self |-> self, arg |-> q,
                    val |-> <<cirq_T(q[1]), [q |-> <<q[1]>>]>>]
    /\ UNCHANGED <<heap, TMATRIX, tn>>

\* self.pretty_name()
call_pretty_name(self) ==
    /\ Counted
    /\ ret' = [op |-> "pretty_name", self |-> self, arg |-> <<>>,
               val |-> pretty_name(heap[self])]
    /\ UNCHANGED <<heap, TMATRIX, tn>>

\* str(self)
call_str(self) ==
    /\ Counted
    /\ ret' = [op |-> "__str__", self |-> self, arg |-> <<>>, val |-> str(heap[self])]
    /\ UNCHANGED <<heap, TMATRIX, tn>>

\* self.wire_symbol(soq): TextBox(self.pretty_name())
wire_symbol(self, soq) ==
    /\ Counted
    /\ ret' = [op |-> "wire_symbol", self |-> self, arg |-> <<>>,
               val |-> [box |-> "TextBox", text |-> pretty_name(heap[self])]]
    /\ UNCHANGED <<heap, TMATRIX, tn>>

Next ==
    \/ \E b \in BOOLEAN : TGate(b)
    \/ t_gate
    \/ \E self \in Ids : signature(self)
    \/ \E self \in Ids : t_complexity(self)
    \/ \E self \in Ids, tag \in Tags, incoming \in SoqDicts, outgoing \in SoqDicts :
           add_my_tensors(self, tag, incoming, outgoing)
    \/ \E self \in Ids : adjoint(self)
    \/ \E self \in Ids, q \in Quregs : as_cirq_op(self, q)
    \/ \E self \in Ids : call_pretty_name(self)
    \/ \E self \in Ids : call_str(self)
    \/ \E self \in Ids, soq \in Soquets : wire_symbol(self, soq)

Spec == Init /\ [][Next]_vars

\* ------------------------------------------------------------------ claims
\* The instance that n successive adjoint() calls led from to x (0: none).
RECURSIVE Anc(_, _)
Anc(x, n) == IF n = 0 \/ x = 0 THEN x ELSE Anc(heap[x].src, n - 1)

\* s holds sub as a contiguous substring.
Contains(s, sub) ==
    \E i \in 0..(Len(s) - Len(sub)) : SubSeq(s, i + 1, i + Len(sub)) = sub

\* The last call was an add_my_tensors that returned (raised nothing).
Added == ret.op = "add_my_tensors" /\ ret.val = "None"
AddedNext == ret'.op = "add_my_tensors" /\ ret'.val = "None"

\* [[1, 0], [0, e^{i pi/4}]] and [[1, 0], [0, e^{-i pi/4}]]
BaseMatrix == <<<<One, Zero>>, <<Zero, [abs |-> 1, arg |-> 1]>>>>
BaseMatrixDagger == <<<<One, Zero>>, <<Zero, [abs |-> 1, arg |-> 7]>>>>

\* 'T' and 'T(dagger)'
Label(b) == IF b THEN <<"T", Dagger>> ELSE <<"T">>

\* C1: as_cirq_op on a one-element qubit collection [q0] returns an operation
\* on q0 whose unitary is the gate's when is_adjoint is false and the gate's
\* adjoint when is_adjoint is true.
C1_AsCirqOpFollowsFlag ==
    (ret.op = "as_cirq_op" /\ Len(ret.arg) = 1) =>
        /\ ret.val[1].qubits = <<ret.arg[1]>>
        /\ cirq_unitary(ret.val[1].gate) =
               (IF heap[ret.self].is_adjoint THEN BaseMatrixDagger ELSE BaseMatrix)

\* C2: an instance reached from another by an even number of adjoint()
\* calls, two in particular, is equal to it.
C2_EvenAdjointRoundTrip ==
    \A x \in Ids : \A n \in 0..Len(heap) :
        (n % 2 = 0 /\ Anc(x, n) # 0) => eq(heap[x], heap[Anc(x, n)])

C2_Witness ==
    \E x \in Ids : Anc(x, 2) # 0 /\ ~heap[Anc(x, 2)].is_adjoint

\* C3: the tensor add_my_tensors inserts has the base matrix as data when
\* is_adjoint is false and its conjugate transpose when it is true, and
\* _TMATRIX keeps the value it was defined with.
C3_TensorDataFollowsFlag ==
    /\ TMATRIX = BaseMatrix
    /\ Added =>
           tn[Len(tn)].data =
               (IF heap[ret.self].is_adjoint THEN BaseMatrixDagger ELSE BaseMatrix)

C3_Witness ==
    /\ Added
    /\ heap[ret.self].is_adjoint
    /\ \E i \in 1..(Len(tn) - 1) : tn[i].data = BaseMatrix

\* C4: a call of add_my_tensors that returns appends exactly one node to the
\* network and leaves the nodes already there as they were, the new node has
\* the two legs (outgoing['q'], incoming['q']), and no other call changes the
\* network.
C4_OneNodePerCall ==
    [][IF AddedNext
       THEN /\ Len(tn') = Len(tn) + 1
            /\ SubSeq(tn', 1, Len(tn)) = tn
            /\ tn'[Len(tn')].inds = <<ret'.arg.outgoing.q, ret'.arg.incoming.q>>
            /\ Len(tn'[Len(tn')].inds) = 2
       ELSE tn' = tn]_vars

C4_Witness ==
    /\ Added
    /\ Len(tn) = 2
    /\ ret.arg.outgoing.q # ret.arg.incoming.q

\* C5: the tensor add_my_tensors inserts carries two tags, the gate's display
\* name ('T' or 'T(dagger)' by is_adjoint) and then the caller's tag.
C5_TensorTags ==
    Added =>
        LET tags == tn[Len(tn)].tags
        IN  /\ Len(tags) = 2
            /\ tags[1] = Label(heap[ret.self].is_adjoint)
            /\ tags[1] = pretty_name(heap[ret.self])
            /\ tags[2] = ret.arg.tag

C5_Witness == Added /\ heap[ret.self].is_adjoint /\ ret.arg.tag = "binst1"

\* C6: _t_complexity_ returns one T for every instance, made by the
\* constructor or by any number of adjoint() calls.
C6_OneTGate ==
    /\ ret.op = "_t_complexity_" => ret.val.t = 1
    /\ \A x \in Ids : t_complexity_value(heap[x]).t = 1

C6_Witness ==
    /\ ret.op = "_t_complexity_"
    /\ heap[ret.self].is_adjoint
    /\ heap[ret.self].src # 0

\* C7: no call changes the is_adjoint of an instance that exists, and
\* adjoint() returns a new instance whose is_adjoint is the negation of the
\* receiver's.
C7_NeverMutated ==
    [][/\ \A x \in DOMAIN heap :
              x \in DOMAIN heap' /\ heap'[x].is_adjoint = heap[x].is_adjoint
       /\ ret'.op = "adjoint" =>
              /\ ret'.val \notin DOMAIN heap
              /\ ret'.val \in DOMAIN heap'
              /\ heap'[ret'.val].is_adjoint = ~heap[ret'.self].is_adjoint]_vars

C7_Witness ==
    \E x \in Ids :
        /\ \E y \in Ids : heap[y].src = x
        /\ heap[x].cache # <<>>
        /\ Added
        /\ ret.self = x

\* C8: pretty_name returns 'T' when is_adjoint is false and 'T(dagger)' when
\* it is true, and wire_symbol returns the text box of that label.
C8_DisplayName ==
    /\ ret.op = "pretty_name" => ret.val = Label(heap[ret.self].is_adjoint)
    /\ ret.op = "wire_symbol" =>
           ret.val = [box |-> "TextBox", text |-> Label(heap[ret.self].is_adjoint)]

C8_Witness == ret.op = "wire_symbol" /\ heap[ret.self].is_adjoint

\* C9: __str__ is 'TGate(is_adjoint=True)' when is_adjoint is true and
\* 'TGate()' when it is false, so it holds the marker 'is_adjoint' exactly
\* when is_adjoint is true.
C9_DebugString ==
    ret.op = "__str__" =>
        /\ ret.val =
               (IF heap[ret.self].is_adjoint
                THEN <<"T", "G", "a", "t", "e", "(", "i", "s", "_", "a", "d", "j",
                       "o", "i", "n", "t", "=", "T", "r", "u", "e", ")">>
                ELSE <<"T", "G", "a", "t", "e", "(", ")">>)
        /\ Contains(ret.val, <<"i", "s", "_", "a", "d", "j", "o", "i", "n", "t">>)
               <=> heap[ret.self].is_adjoint

C9_Witness == ret.op = "__str__" /\ ~heap[ret.self].is_adjoint

\* C10: every access of signature, the first and the later ones, on an
\* instance of either flag, gives exactly one register, 'q' of width 1.
C10_SignatureFixed ==
    /\ ret.op = "signature" => ret.val = <<[name |-> "q", bitsize |-> 1]>>
    /\ \A x \in Ids :
           heap[x].cache # <<>> => heap[x].cache = <<<<[name |-> "q", bitsize |-> 1]>>>>

C10_Witness ==
    /\ ret.op = "signature"
    /\ ret.arg = FALSE
    /\ heap[ret.self].is_adjoint

====
